---------------------------- MODULE Spec2Model ----------------------------
(* XTE-Visualizer: histogramAnalysis.py and lineCreator.py.                *)
(* Both scripts share parse_navigation_log and the per-file loop of main(); *)
(* the variable tool selects which script is running.                      *)
EXTENDS Integers, Sequences, FiniteSets, TLC

(***************************************************************************)
(* Bounds                                                                  *)
(***************************************************************************)
MaxFiles == 2        \* log files in the directory (batch specification)
MaxBatchLines == 2   \* lines per file in the batch specification
MaxLines == 3        \* lines per file in the single-file specifications
FracBits == 2        \* binary digits after the point of the float model
MantBits == 4        \* significant binary digits of the float model

(***************************************************************************)
(* Floating point.  A finite float is an integer k standing for k / Unit;  *)
(* every arithmetic result is rounded to MantBits significant binary       *)
(* digits, ties to even, as IEEE-754 does with 53.                         *)
(***************************************************************************)
Unit == 2 ^ FracBits

Abs(x) == IF x < 0 THEN -x ELSE x

Sgn(x) == IF x < 0 THEN -1 ELSE 1

RECURSIVE ExpOf(_, _, _)
ExpOf(q, b, e) == IF q < (2 ^ (MantBits + e)) * b THEN e ELSE ExpOf(q, b, e + 1)

RDivEven(q, d) ==
    LET f == q \div d
        r == q % d
    IN  IF 2 * r > d \/ (2 * r = d /\ f % 2 = 1) THEN f + 1 ELSE f

\* the float nearest to the rational a / b (in quanta), b > 0
RoundRat(a, b) ==
    LET q == Abs(a)
        e == ExpOf(q, b, 0)
    IN  Sgn(a) * RDivEven(q, b * (2 ^ e)) * (2 ^ e)

FAdd(a, b) == RoundRat(a + b, 1)

FSub(a, b) == RoundRat(a - b, 1)

FMul(a, b) == RoundRat(a * b, Unit)

FDiv(a, b) == IF b < 0 THEN RoundRat(-(a * Unit), -b) ELSE RoundRat(a * Unit, b)

FDivCount(a, n) == RoundRat(a, n)

RECURSIVE SqrtExp(_, _)
SqrtExp(n, e) == IF n < 4 ^ (MantBits + e) THEN e ELSE SqrtExp(n, e + 1)

\* the float nearest to the square root of a (a >= 0)
FSqrt(a) ==
    LET n == a * Unit
        e == SqrtExp(n, 0)
        s == 4 ^ e
        m == CHOOSE m \in 0..n : m * m * s <= n /\ n < (m + 1) * (m + 1) * s
        h == (4 * m * m + 4 * m + 1) * s
        up == 4 * n > h \/ (4 * n = h /\ m % 2 = 1)
    IN  (IF up THEN m + 1 ELSE m) * (2 ^ e)

(***************************************************************************)
(* Text fields and float().  A field is <<kind, value>>.                   *)
(***************************************************************************)
Fin(k) == [cls |-> "fin", v |-> k]

NaN == [cls |-> "nan", v |-> 0]

Inf == [cls |-> "inf", v |-> 1]

Stamp == <<"stamp", 0>>     \* text beginning with '2025-'
Text == <<"text", 0>>       \* any other non-numeric text
Empty == <<"empty", 0>>     \* whitespace only
Num(k) == <<"num", k>>      \* a decimal number
NanText == <<"nan", 0>>     \* 'nan'
InfText == <<"inf", 0>>     \* 'inf' or 'infinity'

\* float(text): a value, or raises ValueError
float(field) ==
    CASE field[1] = "num" -> [raised |-> FALSE, val |-> Fin(RoundRat(field[2], 1))]
      [] field[1] = "nan" -> [raised |-> FALSE, val |-> NaN]
      [] field[1] = "inf" -> [raised |-> FALSE, val |-> Inf]
      [] OTHER -> [raised |-> TRUE, val |-> NaN]

\* line.startswith('2025-')
startswith2025(line) == Len(line) >= 1 /\ line[1][1] = "stamp"

\* line.strip(): false when the line holds only whitespace (tabs included)
strip(line) == \E i \in 1..Len(line) : line[i][1] # "empty"

(***************************************************************************)
(* parse_navigation_log: the loop over lines.  parts[1], parts[2],         *)
(* parts[3] of the code are line[2], line[3], line[4] here.                *)
(***************************************************************************)
\* variant: the line that starts the data section is itself not read as a row
RECURSIVE parse_lines_after_stamp(_, _, _, _)
parse_lines_after_stamp(lines, i, data_start, data) ==
    IF i > Len(lines) THEN [raised |-> FALSE, data |-> data]
    ELSE LET line == lines[i]
             started == data_start \/ startswith2025(line)
         IN  IF data_start /\ strip(line) /\ Len(line) >= 4
             THEN LET xte == float(line[2])
                      lat == float(line[3])
                      lon == float(line[4])
                  IN  IF xte.raised \/ lat.raised \/ lon.raised
                      THEN [raised |-> TRUE, data |-> data]
                      ELSE parse_lines_after_stamp(lines, i + 1, started,
                               Append(data, [xte |-> xte.val, lat |-> lat.val,
                                             lon |-> lon.val]))
             ELSE parse_lines_after_stamp(lines, i + 1, started, data)

RECURSIVE parse_lines(_, _, _, _)
parse_lines(lines, i, data_start, data) ==
    IF i > Len(lines) THEN [raised |-> FALSE, data |-> data]
    ELSE LET line == lines[i]
             started == data_start \/ startswith2025(line)
         IN  IF started /\ strip(line) /\ Len(line) >= 4
             THEN LET xte == float(line[2])
                      lat == float(line[3])
                      lon == float(line[4])
                  IN  IF xte.raised \/ lat.raised \/ lon.raised
                      THEN [raised |-> TRUE, data |-> data]
                      ELSE parse_lines(lines, i + 1, started,
                               Append(data, [xte |-> xte.val, lat |-> lat.val,
                                             lon |-> lon.val]))
             ELSE parse_lines(lines, i + 1, started, data)

parse_navigation_log(lines) == parse_lines(lines, 1, FALSE, <<>>)

(***************************************************************************)
(* numpy on the flattened error values (a sequence of finite floats)       *)
(***************************************************************************)
RECURSIVE insert(_, _)
insert(x, s) ==
    IF s = <<>> THEN <<x>>
    ELSE IF x <= Head(s) THEN <<x>> \o s ELSE <<Head(s)>> \o insert(x, Tail(s))

\* sorted(...) / the ordering np.percentile works on
RECURSIVE sorted(_)
sorted(s) == IF s = <<>> THEN <<>> ELSE insert(Head(s), sorted(Tail(s)))

np_abs(xs) == [i \in 1..Len(xs) |-> Abs(xs[i])]

\* np.add.reduce: the values are accumulated in array order
RECURSIVE np_sum(_, _)
np_sum(xs, acc) == IF xs = <<>> THEN acc ELSE np_sum(Tail(xs), FAdd(acc, Head(xs)))

np_mean(xs) == FDivCount(np_sum(xs, 0), Len(xs))

RECURSIVE np_max(_)
np_max(xs) ==
    IF Len(xs) = 1 THEN xs[1]
    ELSE LET m == np_max(Tail(xs)) IN IF Head(xs) > m THEN Head(xs) ELSE m

\* variant: the sample standard deviation (ddof = 1)
np_std_sample(xs) ==
    LET m == np_mean(xs)
        d == [i \in 1..Len(xs) |-> FSub(xs[i], m)]
        sq == [i \in 1..Len(xs) |-> FMul(Abs(d[i]), Abs(d[i]))]
    IN  FSqrt(FDivCount(np_sum(sq, 0), Len(xs) - 1))

\* np.std (ddof = 0): sqrt(mean(abs(x - x.mean()) ** 2))
np_std(xs) ==
    LET m == np_mean(xs)
        d == [i \in 1..Len(xs) |-> FSub(xs[i], m)]
        sq == [i \in 1..Len(xs) |-> FMul(Abs(d[i]), Abs(d[i]))]
    IN  FSqrt(np_mean(sq))

\* variant: the rank is taken in the array as given, without ordering it
np_percentile_unsorted(xs, q) ==
    LET a == xs
        n == Len(a)
        pos == q * (n - 1)
        lo == (pos \div 100) + 1
        hi == IF lo < n THEN lo + 1 ELSE n
        g == pos % 100
    IN  RoundRat(100 * a[lo] + g * (a[hi] - a[lo]), 100)

\* np.percentile(xs, q), method 'linear': rank q/100 * (n - 1) of the sorted values
np_percentile(xs, q) ==
    LET a == sorted(xs)
        n == Len(a)
        pos == q * (n - 1)
        lo == (pos \div 100) + 1
        hi == IF lo < n THEN lo + 1 ELSE n
        g == pos % 100
    IN  RoundRat(100 * a[lo] + g * (a[hi] - a[lo]), 100)

\* the six statistics of plot_combined_histogram's box and main()'s report
StatisticsEngine(xs) ==
    [count |-> Len(xs),
     mean |-> np_mean(xs),
     stdDev |-> np_std(xs),
     meanAbsolute |-> np_mean(np_abs(xs)),
     maxAbsolute |-> np_max(np_abs(xs)),
     percentile95Absolute |-> np_percentile(np_abs(xs), 95)]

NoStats == [count |-> 0, mean |-> 0, stdDev |-> 0, meanAbsolute |-> 0,
            maxAbsolute |-> 0, percentile95Absolute |-> 0]

\* all_xtes.extend([p['xte'] for p in run_data['data']]) over all runs
RECURSIVE flatten_xte(_)
flatten_xte(runs) ==
    IF runs = <<>> THEN <<>>
    ELSE [i \in 1..Len(Head(runs).data) |-> Head(runs).data[i].xte]
             \o flatten_xte(Tail(runs))

\* lineCreator.create_ab_line
create_ab_line(point_a, point_b) ==
    [start |-> point_a,
     end |-> point_b,
     slope |-> IF point_b.lat.v # point_a.lat.v
               THEN Fin(FDiv(FSub(point_b.lon.v, point_a.lon.v),
                             FSub(point_b.lat.v, point_a.lat.v)))
               ELSE Inf]

NoPoint == [xte |-> Fin(0), lat |-> Fin(0), lon |-> Fin(0)]

NoLine == [start |-> NoPoint, end |-> NoPoint, slope |-> Inf]

(***************************************************************************)
(* Inputs: the lines a log file may hold.  A line is the sequence of its   *)
(* tab-separated parts.                                                    *)
(***************************************************************************)
Row(x, p) == <<Stamp, Num(x), Num(p), Num(-p)>>

HeaderLine == <<Text>>
HeaderRow == <<Text, Text, Text, Text>>
BlankLine == <<Empty>>
ShortRow == <<Stamp, Num(Unit), Num(0)>>
ExtraRow == <<Num(0), Num(2), Num(2), Num(-2), Text>>
BadXteRow == <<Stamp, Text, Num(0), Num(0)>>
BadLonRow == <<Stamp, Num(Unit), Num(0), Text>>
NanRow == <<Stamp, NanText, Num(0), Num(0)>>

BatchLines == {Row(Unit, 0), Row(-Unit, Unit), BadXteRow}

ParserLines == {HeaderLine, HeaderRow, BlankLine, ShortRow, ExtraRow, BadXteRow,
                BadLonRow, NanRow, Row(Unit, 0), Row(-Unit, Unit)}

StatsLines == {Row(x, 0) : x \in {-Unit, Unit, 1, 2, 2 ^ MantBits - 1}}

SeqsUpTo(S, n) == UNION {[1..k -> S] : k \in 0..n}

BatchContents == SeqsUpTo(BatchLines, MaxBatchLines)

ParserContents == SeqsUpTo(ParserLines, MaxLines)

StatsContents == SeqsUpTo(StatsLines, MaxLines)

Names == 1..MaxFiles     \* NavigationLog_<n>.txt, ordered as their names sort

\* the orders in which glob() may yield the files of a directory
Orders(S) == {f \in [1..Cardinality(S) -> S] : \A i, j \in DOMAIN f : i # j => f[i] # f[j]}

(***************************************************************************)
(* State                                                                   *)
(***************************************************************************)
VARIABLES
    tool,           \* "histogram" (histogramAnalysis.py) or "line" (lineCreator.py)
    pc,             \* position in main()
    dir,            \* names of the files matching NavigationLog_*.txt
    out_file,       \* the output image: "absent", "stale" (left by an earlier run), "new"
    log_files,      \* main: log_files
    idx,            \* main: position of the for loop in log_files
    handles,        \* files currently open
    lines,          \* parse_navigation_log: lines
    exc,            \* an exception is propagating out of the with block
    data,           \* parse_navigation_log: data, then main: data
    all_runs_data,  \* main: all_runs_data
    all_xtes,       \* plot_combined_histogram: all_xtes
    stats_text,     \* plot_combined_histogram: the statistics box
    report,         \* main: the printed statistics
    ab_line,        \* plot_combined_navigation: ab_line
    stdout          \* what has been printed, <<message, file name or count>>

vars == <<tool, pc, dir, out_file, log_files, idx, handles, lines, exc, data,
          all_runs_data, all_xtes, stats_text, report, ab_line, stdout>>

InitWith(dirs, outs) ==
    /\ tool \in {"histogram", "line"}
    /\ pc = "start"
    /\ dir \in dirs
    /\ out_file \in outs
    /\ log_files = <<>>
    /\ idx = 1
    /\ handles = {}
    /\ lines = <<>>
    /\ exc = FALSE
    /\ data = <<>>
    /\ all_runs_data = <<>>
    /\ all_xtes = <<>>
    /\ stats_text = NoStats
    /\ report = NoStats
    /\ ab_line = NoLine
    /\ stdout = <<>>

Init == InitWith(SUBSET Names, {"absent", "stale"})

InitOneFile == InitWith({{}, {1}}, {"absent"})

(***************************************************************************)
(* main() and the calls it makes                                           *)
(***************************************************************************)
print(msg, n) == stdout' = Append(stdout, <<msg, n>>)

log_file == log_files[idx]

Values(xs) == [i \in 1..Len(xs) |-> xs[i].v]

\* variant: the files are processed in the order glob() yields them
Discover_unsorted ==
    /\ pc = "start"
    /\ \E g \in Orders(dir) : log_files' = g
    /\ IF log_files' = <<>>
       THEN /\ print("No navigation log files found!", 0)
            /\ pc' = "done"
       ELSE /\ print("Found", Len(log_files'))
            /\ pc' = "loop"
    /\ idx' = 1
    /\ all_runs_data' = <<>>
    /\ UNCHANGED <<tool, dir, out_file, handles, lines, exc, data, all_xtes,
                   stats_text, report, ab_line>>

\* output_dir.mkdir; log_files = sorted(glob(...)); the 'not log_files' return
Discover ==
    /\ pc = "start"
    /\ \E g \in Orders(dir) : log_files' = sorted(g)
    /\ IF log_files' = <<>>
       THEN /\ print("No navigation log files found!", 0)
            /\ pc' = "done"
       ELSE /\ print("Found", Len(log_files'))
            /\ pc' = "loop"
    /\ idx' = 1
    /\ all_runs_data' = <<>>
    /\ UNCHANGED <<tool, dir, out_file, handles, lines, exc, data, all_xtes,
                   stats_text, report, ab_line>>

\* for log_file in log_files: print Loading; parse_navigation_log: data = [], open()
OpenFile ==
    /\ pc = "loop"
    /\ idx <= Len(log_files)
    /\ print("Loading", log_file)
    /\ \E opened \in BOOLEAN :
          IF opened
          THEN /\ handles' = handles \cup {log_file}
               /\ pc' = "with_body"
          ELSE /\ handles' = handles      \* open() raises OSError
               /\ pc' = "uncaught"
    /\ data' = <<>>
    /\ exc' = FALSE
    /\ UNCHANGED <<tool, dir, out_file, log_files, idx, lines, all_runs_data,
                   all_xtes, stats_text, report, ab_line>>

\* the body of the with block: f.readlines() and the loop over the lines
ReadParse(contents) ==
    /\ pc = "with_body"
    /\ \E content \in contents :
          /\ lines' = content
          /\ data' = parse_navigation_log(content).data
          /\ exc' = parse_navigation_log(content).raised
    /\ pc' = "with_exit"
    /\ UNCHANGED <<tool, dir, out_file, log_files, idx, handles, all_runs_data,
                   all_xtes, stats_text, report, ab_line, stdout>>

\* variant: f is closed only when the body returns normally
WithExit_leak ==
    /\ pc = "with_exit"
    /\ handles' = IF exc THEN handles ELSE handles \ {log_file}
    /\ pc' = IF exc THEN "uncaught" ELSE "check"
    /\ UNCHANGED <<tool, dir, out_file, log_files, idx, lines, exc, data,
                   all_runs_data, all_xtes, stats_text, report, ab_line, stdout>>

\* leaving the with block closes f, on return and on a raised ValueError alike
WithExit ==
    /\ pc = "with_exit"
    /\ handles' = handles \ {log_file}
    /\ pc' = IF exc THEN "uncaught" ELSE "check"
    /\ UNCHANGED <<tool, dir, out_file, log_files, idx, lines, exc, data,
                   all_runs_data, all_xtes, stats_text, report, ab_line, stdout>>

\* variant: only empty runs are dropped (len(data) < 1)
CheckRun_min_one ==
    /\ pc = "check"
    /\ IF Len(data) < 1
       THEN /\ print("Insufficient data in", log_file)
            /\ all_runs_data' = all_runs_data
       ELSE /\ all_runs_data' = Append(all_runs_data, [name |-> log_file, data |-> data])
            /\ stdout' = stdout
    /\ idx' = idx + 1
    /\ pc' = "loop"
    /\ UNCHANGED <<tool, dir, out_file, log_files, handles, lines, exc, data,
                   all_xtes, stats_text, report, ab_line>>

\* if len(data) < 2: print, continue; else all_runs_data.append(...)
CheckRun ==
    /\ pc = "check"
    /\ IF Len(data) < 2
       THEN /\ print("Insufficient data in", log_file)
            /\ all_runs_data' = all_runs_data
       ELSE /\ all_runs_data' = Append(all_runs_data, [name |-> log_file, data |-> data])
            /\ stdout' = stdout
    /\ idx' = idx + 1
    /\ pc' = "loop"
    /\ UNCHANGED <<tool, dir, out_file, log_files, handles, lines, exc, data,
                   all_xtes, stats_text, report, ab_line>>

\* after the loop: if all_runs_data: ... else: print 'No valid data found'
LoopEnd ==
    /\ pc = "loop"
    /\ idx > Len(log_files)
    /\ IF all_runs_data # <<>>
       THEN /\ print("Generating combined", Len(all_runs_data))
            /\ pc' = "plot"
       ELSE /\ print("No valid data found", 0)
            /\ pc' = "done"
    /\ UNCHANGED <<tool, dir, out_file, log_files, idx, handles, lines, exc, data,
                   all_runs_data, all_xtes, stats_text, report, ab_line>>

\* histogramAnalysis.plot_combined_histogram: ax.hist / ax.set_xlim raise ValueError
\* on a non-finite value; otherwise the box is computed and plt.savefig writes the file
plot_combined_histogram ==
    /\ pc = "plot"
    /\ tool = "histogram"
    /\ all_xtes' = flatten_xte(all_runs_data)
    /\ IF \E i \in 1..Len(all_xtes') : all_xtes'[i].cls # "fin"
       THEN /\ pc' = "uncaught"
            /\ UNCHANGED <<stats_text, out_file, stdout>>
       ELSE /\ stats_text' = StatisticsEngine(Values(all_xtes'))
            /\ out_file' = "new"
            /\ print("Saved combined histogram", 0)
            /\ pc' = "report"
    /\ UNCHANGED <<tool, dir, log_files, idx, handles, lines, exc, data,
                   all_runs_data, report, ab_line>>

\* histogramAnalysis.main: the COMBINED STATISTICS report
PrintStatistics ==
    /\ pc = "report"
    /\ report' = StatisticsEngine(Values(all_xtes))
    /\ print("COMBINED STATISTICS", Len(all_xtes))
    /\ pc' = "done"
    /\ UNCHANGED <<tool, dir, out_file, log_files, idx, handles, lines, exc, data,
                   all_runs_data, all_xtes, stats_text, ab_line>>

\* lineCreator.plot_combined_navigation: the A-B line of the first run
plot_combined_navigation ==
    /\ pc = "plot"
    /\ tool = "line"
    /\ LET first_data == all_runs_data[1].data
       IN  ab_line' = create_ab_line(first_data[1], first_data[Len(first_data)])
    /\ pc' = "unlink"
    /\ UNCHANGED <<tool, dir, out_file, log_files, idx, handles, lines, exc, data,
                   all_runs_data, all_xtes, stats_text, report, stdout>>

\* variant: the stale file is left in place and savefig overwrites it
DeleteOldPlot_keep ==
    /\ pc = "unlink"
    /\ UNCHANGED <<out_file, stdout>>
    /\ pc' = "savefig"
    /\ UNCHANGED <<tool, dir, log_files, idx, handles, lines, exc, data,
                   all_runs_data, all_xtes, stats_text, report, ab_line>>

\* lineCreator.main: if output_file.exists(): output_file.unlink()
DeleteOldPlot ==
    /\ pc = "unlink"
    /\ IF out_file # "absent"
       THEN /\ out_file' = "absent"
            /\ print("Deleted old plot file", 0)
       ELSE UNCHANGED <<out_file, stdout>>
    /\ pc' = "savefig"
    /\ UNCHANGED <<tool, dir, log_files, idx, handles, lines, exc, data,
                   all_runs_data, all_xtes, stats_text, report, ab_line>>

\* lineCreator.main: plt.savefig(output_file, ...) and the prints after it
SavePlot ==
    /\ pc = "savefig"
    /\ out_file' = "new"
    /\ print("Saved combined plot", 0)
    /\ pc' = "done"
    /\ UNCHANGED <<tool, dir, log_files, idx, handles, lines, exc, data,
                   all_runs_data, all_xtes, stats_text, report, ab_line>>

Next ==
    \/ Discover
    \/ OpenFile
    \/ ReadParse(BatchContents)
    \/ WithExit
    \/ CheckRun
    \/ LoopEnd
    \/ plot_combined_histogram
    \/ PrintStatistics
    \/ plot_combined_navigation
    \/ DeleteOldPlot
    \/ SavePlot

NextParser ==
    \/ Discover
    \/ OpenFile
    \/ ReadParse(ParserContents)
    \/ WithExit
    \/ CheckRun
    \/ LoopEnd
    \/ plot_combined_histogram
    \/ PrintStatistics
    \/ plot_combined_navigation
    \/ DeleteOldPlot
    \/ SavePlot

NextStats ==
    \/ Discover
    \/ OpenFile
    \/ ReadParse(StatsContents)
    \/ WithExit
    \/ CheckRun
    \/ LoopEnd
    \/ plot_combined_histogram
    \/ PrintStatistics
    \/ plot_combined_navigation
    \/ DeleteOldPlot
    \/ SavePlot

\* a directory of up to MaxFiles log files
Spec == Init /\ [][Next]_vars

\* one log file, every kind of line
SpecParser == InitOneFile /\ [][NextParser]_vars

\* one log file of well-formed rows, several error values
SpecStats == InitOneFile /\ [][NextStats]_vars

(***************************************************************************)
(* Properties                                                              *)
(***************************************************************************)
Range(f) == {f[i] : i \in DOMAIN f}

Printed(msg, n) == <<msg, n>> \in Range(stdout)

Last(s) == s[Len(s)]

Terminated == pc \in {"done", "uncaught"}

\* C1: a file that cannot be opened or holds an unparsable numeric field does not
\* abort the batch: main() never ends in an uncaught error, and when it ends every
\* discovered file has been parsed and the run ended in the render step or in the
\* 'no valid data' report.
C1_BadFileDoesNotAbortBatch ==
    /\ pc # "uncaught"
    /\ (pc = "done" /\ log_files # <<>>) =>
          /\ idx = Len(log_files) + 1
          /\ \/ Printed("Generating combined", Len(all_runs_data))
             \/ Printed("No valid data found", 0)

\* C2: every run held in all_runs_data has at least 2 samples, at every point of
\* main(); a file that parses to fewer than 2 samples is not appended, a diagnostic
\* is printed and the loop goes on with the next file; a file with 2 or more
\* samples is appended.
C2_Invariant == \A i \in 1..Len(all_runs_data) : Len(all_runs_data[i].data) >= 2

C2_Step ==
    pc = "check" =>
       /\ pc' = "loop"
       /\ idx' = idx + 1
       /\ IF Len(data) < 2
          THEN /\ all_runs_data' = all_runs_data
               /\ stdout' = Append(stdout, <<"Insufficient data in", log_file>>)
          ELSE all_runs_data' = Append(all_runs_data, [name |-> log_file, data |-> data])

C2_RunsHaveTwoSamples == [](C2_Invariant) /\ [][C2_Step]_vars

C2_Witness ==
    /\ pc = "loop"
    /\ Len(all_runs_data) = 1
    /\ Len(all_runs_data[1].data) = 2
    /\ \E n \in Names : Printed("Insufficient data in", n)

\* C3: every Sample that parse_navigation_log returns, and every Sample held in
\* all_runs_data, has a finite crossTrackError.
C3_SamplesFinite ==
    /\ \A i \in 1..Len(data) : data[i].xte.cls = "fin"
    /\ \A r \in 1..Len(all_runs_data) :
          \A i \in 1..Len(all_runs_data[r].data) : all_runs_data[r].data[i].xte.cls = "fin"

\* C4: when there is nothing to render (no file matches, or the last file has been
\* handled and no file yielded a run of 2 or more samples) main() ends normally, its
\* last message is 'no files found' resp. 'no valid data', no image has been written,
\* and the render step is only ever reached with a non-empty all_runs_data.
C4_NothingToRenderIsClean ==
    /\ pc \in {"plot", "report", "unlink", "savefig"} => all_runs_data # <<>>
    /\ (Terminated /\ log_files = <<>>) =>
          /\ pc = "done"
          /\ stdout = << <<"No navigation log files found!", 0>> >>
          /\ out_file # "new"
    /\ (Terminated /\ log_files # <<>> /\ idx >= Len(log_files) /\ all_runs_data = <<>>) =>
          /\ pc = "done"
          /\ Last(stdout) = <<"No valid data found", 0>>
          /\ out_file # "new"

\* the lines a well-formed file yields samples from, stated on the file as a whole
HasNumbers(line) ==
    ~float(line[2]).raised /\ ~float(line[3]).raised /\ ~float(line[4]).raised

WellFormed(ls) == \A i \in 1..Len(ls) : Len(ls[i]) >= 4 => HasNumbers(ls[i])

FirstStamp(ls) ==
    IF \E i \in 1..Len(ls) : startswith2025(ls[i])
    THEN CHOOSE i \in 1..Len(ls) :
            /\ startswith2025(ls[i])
            /\ \A j \in 1..(i - 1) : ~startswith2025(ls[j])
    ELSE Len(ls) + 1

DataRows(ls) ==
    {i \in FirstStamp(ls)..Len(ls) : strip(ls[i]) /\ Len(ls[i]) >= 4}

SampleOf(line) ==
    [xte |-> float(line[2]).val, lat |-> float(line[3]).val, lon |-> float(line[4]).val]

\* C5: for a file in which every line with 4 or more fields has parseable fields
\* 1-3, parse_navigation_log raises nothing and returns exactly one Sample per
\* non-blank line with 4 or more fields at or after the first line starting with
\* '2025-', in file order, built from fields 1-3 only.
C5_OneSamplePerDataRow ==
    (pc = "with_exit" /\ WellFormed(lines)) =>
       /\ ~exc
       /\ Len(data) = Cardinality(DataRows(lines))
       /\ \E f \in [1..Len(data) -> DataRows(lines)] :
             /\ \A i, j \in 1..Len(data) : i < j => f[i] < f[j]
             /\ \A i \in 1..Len(data) : data[i] = SampleOf(lines[f[i]])

C5_Witness ==
    /\ pc = "with_exit"
    /\ WellFormed(lines)
    /\ Len(lines) = 3
    /\ Len(lines[1]) >= 4 /\ FirstStamp(lines) = 2
    /\ Len(lines[2]) < 4
    /\ Len(lines[3]) > 4
    /\ Len(data) = 1

\* C6: in the path-plot tool the image is written only onto a path that holds no
\* file (a stale file is unlinked first, in the step before the write), and a run
\* that ends after the save step leaves exactly the file it wrote.
C6_Step ==
    tool = "line" =>
       /\ (pc = "unlink" /\ out_file # "absent") => out_file' = "absent"
       /\ out_file' = "new" => (pc = "savefig" /\ out_file = "absent")

C6_Final == (tool = "line" /\ pc = "done" /\ all_runs_data # <<>>) => out_file = "new"

C6_StaleDeletedBeforeWrite == [](C6_Final) /\ [][C6_Step]_vars

C6_Witness ==
    /\ tool = "line"
    /\ pc = "done"
    /\ out_file = "new"
    /\ Printed("Deleted old plot file", 0)

\* C9: at most one log file is open at any moment, a file is open only inside the
\* with block of the parse call that opened it, and it is closed when that call is
\* left, by return or by a raised error, before the next file is opened.
C9_HandlesScoped ==
    /\ Cardinality(handles) <= 1
    /\ handles # {} => (pc \in {"with_body", "with_exit"} /\ handles = {log_file})
    /\ pc \in {"with_body", "with_exit"} => handles = {log_file}

C9_Witness ==
    /\ pc = "uncaught"
    /\ exc
    /\ idx = 2
    /\ handles = {}

\* C10: in the path-plot tool the A-B line runs from the first to the last sample of
\* the first run, in sorted file order, that was not dropped for insufficient data,
\* and the retained runs are in all_runs_data in the order of the sorted file list.
Retained == {n \in dir : Printed("Loading", n) /\ ~Printed("Insufficient data in", n)}

C10_ReferenceIsFirstRetained ==
    /\ \A i, j \in 1..Len(all_runs_data) :
          i < j => all_runs_data[i].name < all_runs_data[j].name
    /\ (tool = "line" /\ pc \in {"unlink", "savefig", "done"} /\ all_runs_data # <<>>) =>
          LET ref == all_runs_data[1]
          IN  /\ ref.name \in Retained
              /\ \A n \in Retained : ref.name <= n
              /\ ab_line.start = ref.data[1]
              /\ ab_line.end = ref.data[Len(ref.data)]

C10_Witness ==
    /\ tool = "line"
    /\ pc = "done"
    /\ Printed("Insufficient data in", 1)
    /\ all_runs_data # <<>>
    /\ all_runs_data[1].name = 2
    /\ ab_line.start # ab_line.end

\* the statistics main() reports for a file holding the given lines alone
Permuted(s, p) == [i \in 1..Len(s) |-> s[p[i]]]

StatisticsOfFile(ls) ==
    StatisticsEngine(Values(flatten_xte(
        <<[name |-> 1, data |-> parse_navigation_log(ls).data]>>)))

Reported == tool = "histogram" /\ pc = "done" /\ report.count > 0

RECURSIVE Sum(_)
Sum(xs) == IF xs = <<>> THEN 0 ELSE Head(xs) + Sum(Tail(xs))

Fits(k) == RoundRat(k, 1) = k

PrefixesFit(xs) == \A k \in 1..Len(xs) : Fits(Sum(SubSeq(xs, 1, k)))

Deviations(xs) == [i \in 1..Len(xs) |-> xs[i] - (Sum(xs) \div Len(xs))]

Squares(ds) == [i \in 1..Len(ds) |-> (ds[i] * ds[i]) \div Unit]

\* no intermediate result of the standard deviation of xs needs rounding
NoRounding(xs) ==
    LET n == Len(xs)
        ds == Deviations(xs)
        sq == Squares(ds)
    IN  /\ PrefixesFit(xs)
        /\ Sum(xs) % n = 0
        /\ \A i \in 1..n : Fits(ds[i]) /\ (ds[i] * ds[i]) % Unit = 0 /\ Fits(sq[i])
        /\ PrefixesFit(sq)
        /\ Sum(sq) % n = 0

\* the population variance of xs: the squared deviations summed and divided by count
PopulationVariance(xs) == Sum(Squares(Deviations(xs))) \div Len(xs)

IsSquare(k) == \E s \in 0..k : s * s = k

\* C8: the reported stdDev is the population standard deviation of the flattened
\* values of all retained runs: wherever the arithmetic is exact its square is the
\* sum of squared deviations from the mean divided by count, and the values -1, 1
\* give exactly 1.0.
C8_StdDevIsPopulation ==
    Reported =>
       LET xs == Values(flatten_xte(all_runs_data))
       IN  /\ (NoRounding(xs) /\ IsSquare(PopulationVariance(xs) * Unit)) =>
                 report.stdDev * report.stdDev = PopulationVariance(xs) * Unit
           /\ (Len(xs) = 2 /\ {xs[1], xs[2]} = {-Unit, Unit}) => report.stdDev = Unit

C8_Witness ==
    /\ Reported
    /\ Values(all_xtes) = <<-Unit, Unit>>
    /\ report.stdDev = Unit
    /\ stats_text.stdDev = Unit

=============================================================================
